---- MODULE Spec2Model ----
(***************************************************************************)
(* A model of node-gitteh's Commit binding (src/commit.cc): the frontend   *)
(* (event loop) thread that runs the JavaScript-facing handlers, the eio   *)
(* worker threads that run the deferred steps, the repository lock, the    *)
(* object factory (entity cache) and the backend (libgit2) objects the     *)
(* wrappers point to.                                                      *)
(***************************************************************************)
EXTENDS Integers, Sequences, FiniteSets, TLC

(***************************************************************************)
(* Bounds of the model.                                                    *)
(***************************************************************************)
\* number of commits the caller creates with createNew
MaxNew == 1
\* number of deferred getParent requests the caller submits
MaxTasks == 2
\* number of addParent calls that reach the backend
MaxAdds == 2
\* number of calls the caller makes in all
MaxCalls == 4

(***************************************************************************)
(* The repository the model starts from: commit 1 has parent 2, commit 2   *)
(* is a root.  Repo[h] is the parent list of committed handle h.           *)
(***************************************************************************)
Repo == << <<2>>, <<>> >>
NumCommitted == Len(Repo)
Handles == 1 .. (NumCommitted + MaxNew)
NULL == 0
\* object ids; NoOid is the id of an object that was never written, and
\* MissingOid a well-formed id that names no object of the repository
NoOid == 0
MissingOid == NumCommitted + MaxNew + 1
Oids == Handles \cup {MissingOid}
\* trees of the repository (git_tree *), the id of the one there is, and a
\* pointer value that is no tree at all
Trees == {1}
TreeOid == MissingOid + 1
WildTree == Cardinality(Trees) + 1
\* wrapper objects: the one the factory makes for the object with id k is k,
\* the one createNew makes for handle h is NewSlot(h)
NewSlot(h) == NumCommitted + MaxNew + (h - NumCommitted)
WrapperIds == 1 .. (NumCommitted + 2 * MaxNew)

\* worker threads: one per deferred getParent request, one per deferred
\* load of a wrapper; FREE is the lock nobody holds
GpWorker(t) == <<"eio_getparent", t>>
LoadWorker(w) == <<"eio_load", w>>
FREE == <<"free", 0>>

(***************************************************************************)
(* Backend (libgit2) functions the binding calls.                          *)
(***************************************************************************)
\* git_oid_fmt / git_oid_allocfmt: the hex string of an id
GitOidFmt(oid) == "oid" \o ToString(oid)

\* id strings a caller passes: well-formed ones and a malformed one
IdStrings == {GitOidFmt(k) : k \in Oids} \cup {"zz"}

\* git_oid_mkstr: parse an id string
GitOidMkstr(s) ==
    IF \E k \in Oids \cup {TreeOid} : GitOidFmt(k) = s
    THEN [res |-> "GIT_SUCCESS",
          oid |-> CHOOSE k \in Oids \cup {TreeOid} : GitOidFmt(k) = s]
    ELSE [res |-> "GIT_ENOTOID", oid |-> NoOid]

\* git_commit_lookup: the handle of the object with this id
GitCommitLookup(b, oid) ==
    IF \E h \in Handles : b[h].alloc /\ b[h].id = oid /\ oid # NoOid
    THEN [res |-> "GIT_SUCCESS",
          commit |-> CHOOSE h \in Handles : b[h].alloc /\ b[h].id = oid]
    ELSE [res |-> "GIT_ENOTFOUND", commit |-> NULL]

\* git_tree_lookup: the tree with this id
GitTreeLookup(oid) ==
    IF oid = TreeOid
    THEN [res |-> "GIT_SUCCESS", tree |-> CHOOSE t \in Trees : TRUE]
    ELSE [res |-> "GIT_ENOTFOUND", tree |-> NULL]

\* git_commit_tree: the tree of the commit, NULL when it has none
GitCommitTree(b, h) == b[h].tree

\* git_commit_set_tree
GitCommitSetTree(b, h, t) == [b EXCEPT ![h].tree = t]

\* git_commit_parent(commit, n): NULL when n is not an index of the list
\* (n is unsigned in the backend: a negative index is out of range too)
GitCommitParent(b, h, n) ==
    IF n >= 0 /\ n < Len(b[h].parents) THEN b[h].parents[n + 1] ELSE NULL

\* git_commit_add_parent: appends, or fails and leaves the list alone
GitCommitAddParent(b, h, p, ok) ==
    IF ok THEN [b EXCEPT ![h].parents = Append(@, p)] ELSE b

\* git_commit_set_message, git_commit_set_committer, git_commit_set_author
GitCommitSetFields(b, h, m, c, a) ==
    [b EXCEPT ![h].message = m, ![h].committer = c, ![h].author = a]

\* git_object_write: persists the object and assigns its id, or fails
GitObjectWrite(b, h, ok) ==
    IF ok THEN [b EXCEPT ![h].id = h] ELSE b

VARIABLES
    backend,    \* [Handles -> backend object]
    lock,       \* FREE or the worker holding the repository lock
    wrappers,   \* [WrapperIds -> Commit wrapper]
    cache,      \* the commit factory: [Oids -> wrapper or NULL]
    tasks,      \* sequence of get_parent_request records
    evRefs,     \* ev_ref count of the default loop
    budget,     \* [adds, calls]: addParent calls that reached the backend, calls made
    heap,       \* number of get_parent_request records allocated and not deleted
    lastOp      \* the last step: who ran it and what the caller got from it

vars == <<backend, lock, wrappers, cache, tasks, evRefs, budget, heap, lastOp>>

(***************************************************************************)
(* Wrappers.  state is the load state of the wrapper (None while it does   *)
(* not exist, then Loading, Loaded or New); id, message, author,           *)
(* committer, parentCount are the properties the caller reads on the       *)
(* JavaScript object, UNDEF while never set; parentCount_ is the C++       *)
(* member; refs the ObjectWrap reference count; handed says that the       *)
(* caller holds the object; alive that it was not destroyed; loadPc, data, *)
(* raced and waiters describe its deferred load.                           *)
(***************************************************************************)
UNDEF == "undefined"
JSNULL == "null"
\* the parentCount property while it was never set
NoCount == 0 - 1
NoData == [id |-> UNDEF, message |-> UNDEF, author |-> UNDEF,
           committer |-> UNDEF, parentCount |-> 0]

\* new Commit(); commit->commit_ = theCommit
NewWrapper(h, st) ==
    [commit |-> h, state |-> st, parentCount_ |-> 0, refs |-> 0,
     handed |-> FALSE, alive |-> TRUE,
     id |-> UNDEF, message |-> UNDEF, author |-> UNDEF, committer |-> UNDEF,
     parentCount |-> NoCount,
     loadPc |-> "none", data |-> NoData, raced |-> FALSE, waiters |-> {}]

NoWrapper == [NewWrapper(NULL, "None") EXCEPT !.alive = FALSE]

\* Commit::loadInitData: everything is copied out of the backend object in
\* one locked section
loadInitData(b, h) ==
    [id |-> GitOidFmt(b[h].id), message |-> b[h].message,
     author |-> b[h].author, committer |-> b[h].committer,
     parentCount |-> Len(b[h].parents)]

\* (mutant: the committer is not set)
processLoadedPartial(wr, data) ==
    [wr EXCEPT !.id = data.id, !.message = data.message,
               !.author = data.author,
               !.parentCount_ = data.parentCount,
               !.parentCount = data.parentCount]

\* Commit::processInitData with data: the five properties are set together
processLoaded(wr, data) ==
    [wr EXCEPT !.id = data.id, !.message = data.message,
               !.author = data.author, !.committer = data.committer,
               !.parentCount_ = data.parentCount,
               !.parentCount = data.parentCount]

\* Commit::processInitData without data: "This is a new commit."
processNew(wr) ==
    [wr EXCEPT !.id = JSNULL, !.message = JSNULL, !.author = JSNULL,
               !.committer = JSNULL, !.parentCount_ = 0, !.parentCount = 0]

processInitData(wr, data) ==
    IF data # NoData THEN processLoaded(wr, data) ELSE processNew(wr)

(***************************************************************************)
(* The commit factory (EntityCache).                                       *)
(***************************************************************************)
\* the wrapper cached for the identity of backend object h, or NULL
Cached(b, c, h) == IF b[h].id = NoOid THEN NULL ELSE c[b[h].id]

\* lookupOrCreate: the cached wrapper, or a new one in Loading state that is
\* inserted before its load starts
LookupOrCreate(b, ws, c, h) ==
    IF Cached(b, c, h) # NULL
    THEN [wrappers |-> ws, cache |-> c, w |-> Cached(b, c, h), created |-> FALSE]
    ELSE [wrappers |-> [ws EXCEPT ![b[h].id] = NewWrapper(h, "Loading")],
          cache |-> [c EXCEPT ![b[h].id] = b[h].id],
          w |-> b[h].id, created |-> TRUE]

\* lockRepository(); ...; unlockRepository()
LockedSection == <<"lock", "unlock">>

\* the load step run by the requesting thread itself: loadInitData under the
\* lock, then processInitData
LoadInline(b, wr) ==
    [processInitData(wr, loadInitData(b, wr.commit)) EXCEPT !.state = "Loaded"]

\* syncRequestObject: the wrapper for backend object h, loaded before it is
\* returned (by this thread when nobody has loaded it yet)
SyncRequestObject(b, ws, c, h) ==
    LET r == LookupOrCreate(b, ws, c, h)
        wr == r.wrappers[r.w]
        loaded == IF wr.state = "Loading" THEN LoadInline(b, wr) ELSE wr
    IN  [wrappers |-> [r.wrappers EXCEPT ![r.w] = [loaded EXCEPT !.handed = TRUE]],
         cache |-> r.cache, w |-> r.w,
         trace |-> IF wr.state = "Loading" THEN LockedSection ELSE <<>>]

\* the result a callback is invoked with
NoResult == [err |-> FALSE, wrapper |-> NULL]
\* (mutant: the error argument is not filled in)
ErrResultEmpty == [err |-> FALSE, wrapper |-> NULL]
ErrResult == [err |-> TRUE, wrapper |-> NULL]
OkResult(w) == [err |-> FALSE, wrapper |-> w]

\* TRIGGER_CALLBACK: the callback of request t is invoked with res
Deliver(ts, t, res) ==
    [ts EXCEPT ![t].pc = "delivered", ![t].result = res, ![t].ncalls = @ + 1]

\* asyncRequestObject: a loaded wrapper is passed to the callback at once; a
\* wrapper still loading keeps the callback until its load completes; a new
\* wrapper is scheduled for loading on a worker
AsyncRequestObject(b, ws, c, ts, h, t) ==
    LET r == LookupOrCreate(b, ws, c, h)
        wr == r.wrappers[r.w]
    IN  IF wr.state # "Loading"
        THEN [wrappers |-> [r.wrappers EXCEPT ![r.w].handed = TRUE],
              cache |-> r.cache,
              tasks |-> Deliver(ts, t, OkResult(r.w))]
        ELSE [wrappers |-> [r.wrappers EXCEPT
                  ![r.w].waiters = @ \cup {t},
                  ![r.w].loadPc = IF r.created THEN "queued" ELSE @],
              cache |-> r.cache,
              tasks |-> [ts EXCEPT ![t].pc = "handed"]]

(***************************************************************************)
(* What is recorded of a step: the thread that ran it, the handler, the    *)
(* wrapper it ran on, whether it returned normally, the wrapper it         *)
(* returned, the backend mutations and writes it made, whether it called   *)
(* the backend, held the lock for that, and did so while a worker was      *)
(* inside a backend call of its own, and the lock and unlock calls it      *)
(* made, in order; for addParent and setTree, whether the argument was      *)
(* invalid; for getParent, the index passed.                               *)
(***************************************************************************)
\* eio_custom(execute, pri, finish, data): execute runs on a worker thread,
\* finish on the thread of the event loop
ExecuteThread == "worker"
\* (mutant: the completion runs on the worker)
FinishOnWorker == "worker"
FinishThread == "frontend"

InBackend ==
    {GpWorker(t) : t \in {u \in DOMAIN tasks : tasks[u].pc = "incall"}}
    \cup {LoadWorker(w) : w \in {v \in WrapperIds : wrappers[v].loadPc = "incall"}}

Op(thread, name, w, ok, ret, sets, writes, called, locked) ==
    [thread |-> thread, op |-> name, w |-> w, ok |-> ok, ret |-> ret,
     sets |-> sets, writes |-> writes, called |-> called, locked |-> locked,
     overlap |-> called /\ InBackend # {},
     trace |-> IF locked THEN LockedSection ELSE <<>>,
     invalid |-> FALSE, index |-> 0]

Init ==
    /\ backend = [h \in Handles |->
          IF h <= NumCommitted
          THEN [alloc |-> TRUE, id |-> h, message |-> "m", author |-> "sig",
                committer |-> "sig", parents |-> Repo[h],
                tree |-> CHOOSE t \in Trees : TRUE]
          ELSE [alloc |-> FALSE, id |-> NoOid, message |-> "", author |-> "",
                committer |-> "", parents |-> <<>>, tree |-> NULL]]
    /\ lock = FREE
    /\ wrappers = [w \in WrapperIds |-> NoWrapper]
    /\ cache = [o \in Oids |-> NULL]
    /\ tasks = <<>>
    /\ evRefs = 0
    /\ budget = [adds |-> 0, calls |-> 0]
    /\ heap = 0
    /\ lastOp = Op("frontend", "none", NULL, TRUE, NULL, 0, 0, FALSE, FALSE)

\* the caller makes one more call
CanCall == budget.calls < MaxCalls
Called == [budget EXCEPT !.calls = @ + 1]

(***************************************************************************)
(* Frontend: entry points of the repository.                               *)
(***************************************************************************)
\* createNew: a fresh backend object and a fresh wrapper in state New; the
\* cache is not touched
CreateNew ==
    /\ CanCall
    /\ budget' = Called
    /\ lock = FREE
    /\ \E h \in Handles :
        /\ ~backend[h].alloc
        /\ \A g \in Handles : g < h => backend[g].alloc
        /\ backend' = [backend EXCEPT ![h].alloc = TRUE]
        /\ wrappers' = [wrappers EXCEPT ![NewSlot(h)] =
              [processInitData(NewWrapper(h, "New"), NoData) EXCEPT !.handed = TRUE]]
        /\ lastOp' = Op("frontend", "createNew", NewSlot(h), TRUE, NewSlot(h), 0, 0, TRUE, TRUE)
    /\ UNCHANGED <<lock, cache, tasks, evRefs, heap>>

\* get(id) inline: parse, look the object up under the lock, then request
\* its wrapper
Get(s) ==
    /\ CanCall
    /\ budget' = Called
    /\ lock = FREE
    /\ LET p == GitOidMkstr(s)
           l == GitCommitLookup(backend, p.oid)
           r == SyncRequestObject(backend, wrappers, cache, l.commit)
       IN  IF p.res # "GIT_SUCCESS"
           THEN /\ lastOp' = Op("frontend", "get", NULL, FALSE, NULL, 0, 0, FALSE, FALSE)
                /\ UNCHANGED <<wrappers, cache>>
           ELSE IF l.res # "GIT_SUCCESS"
           THEN /\ lastOp' = Op("frontend", "get", NULL, FALSE, NULL, 0, 0, TRUE, TRUE)
                /\ UNCHANGED <<wrappers, cache>>
           ELSE /\ wrappers' = r.wrappers
                /\ cache' = r.cache
                /\ lastOp' = [Op("frontend", "get", NULL, TRUE, r.w, 0, 0, TRUE, TRUE)
                                 EXCEPT !.trace = LockedSection \o r.trace]
    /\ UNCHANGED <<backend, lock, tasks, evRefs, heap>>

(***************************************************************************)
(* Frontend: Commit::GetParent.                                            *)
(***************************************************************************)
Modes == {"noargs", "inline", "deferred", "badcallback"}
Indexes == (0 - 1) .. MaxAdds

\* the bounds check of GetParent
IndexOutOfBounds(i, n) == i >= n

\* the request record made at submission; parent is written by the worker
NewRequest(w, i) ==
    [commit |-> w, index |-> i, parent |-> NULL, pc |-> "queued",
     raced |-> FALSE, result |-> NoResult, ncalls |-> 0, freed |-> FALSE]

\* new get_parent_request / delete reqData
NewRecord(n) == n + 1
DeleteRecord(n) == n - 1
DeleteRequest(ts, t) == [ts EXCEPT ![t].freed = TRUE]

\* commit->Ref() / commit->Unref()
Ref(ws, w) == [ws EXCEPT ![w].refs = @ + 1]
\* (mutant: the completion does not give the reference back)
UnrefSkipped(ws, w) == ws
Unref(ws, w) == [ws EXCEPT ![w].refs = @ - 1]

\* the caller can call a method of the wrappers it holds
Usable(w) == wrappers[w].state # "None" /\ wrappers[w].handed /\ wrappers[w].alive

GetParentThrows(w, i, mode) ==
    /\ \/ mode = "noargs"
       \/ mode # "noargs" /\ IndexOutOfBounds(i, wrappers[w].parentCount_)
       \/ mode = "badcallback" /\ ~IndexOutOfBounds(i, wrappers[w].parentCount_)
    /\ heap' = IF mode = "badcallback" /\ ~IndexOutOfBounds(i, wrappers[w].parentCount_)
               THEN NewRecord(heap) ELSE heap
    /\ lastOp' = [Op("frontend", "getParent", w, FALSE, NULL, 0, 0, FALSE, FALSE)
                     EXCEPT !.index = i]
    /\ UNCHANGED <<backend, lock, wrappers, cache, tasks, evRefs>>

GetParentDeferred(w, i) ==
    /\ ~IndexOutOfBounds(i, wrappers[w].parentCount_)
    /\ Len(tasks) < MaxTasks
    /\ heap' = NewRecord(heap)
    /\ tasks' = Append(tasks, NewRequest(w, i))
    /\ wrappers' = Ref(wrappers, w)
    /\ evRefs' = evRefs + 1
    /\ lastOp' = [Op("frontend", "getParent", w, TRUE, NULL, 0, 0, FALSE, FALSE)
                     EXCEPT !.index = i]
    /\ UNCHANGED <<backend, lock, cache>>

\* (mutant: the parent's wrapper is requested before the lock is released)
InlineLockTraceNested(loadTrace) == <<"lock">> \o loadTrace \o <<"unlock">>
\* the inline branch: lock, git_commit_parent, unlock, then syncRequestObject
InlineLockTrace(loadTrace) == LockedSection \o loadTrace

GetParentInline(w, i) ==
    /\ ~IndexOutOfBounds(i, wrappers[w].parentCount_)
    /\ lock = FREE
    /\ LET parent == GitCommitParent(backend, wrappers[w].commit, i)
           r == SyncRequestObject(backend, wrappers, cache, parent)
       IN  IF parent = NULL
           THEN /\ lastOp' = [Op("frontend", "getParent", w, FALSE, NULL, 0, 0, TRUE, TRUE)
                                 EXCEPT !.index = i]
                /\ UNCHANGED <<wrappers, cache>>
           ELSE /\ wrappers' = r.wrappers
                /\ cache' = r.cache
                /\ lastOp' = [Op("frontend", "getParent", w, TRUE, r.w, 0, 0, TRUE, TRUE)
                                 EXCEPT !.trace = InlineLockTrace(r.trace), !.index = i]
    /\ UNCHANGED <<backend, lock, tasks, evRefs, heap>>

GetParent(w, i, mode) ==
    /\ Usable(w)
    /\ CanCall
    /\ budget' = Called
    /\ mode = "noargs" => i = 0
    /\ \/ GetParentThrows(w, i, mode)
       \/ mode = "deferred" /\ GetParentDeferred(w, i)
       \/ mode = "inline" /\ GetParentInline(w, i)

(***************************************************************************)
(* Worker: Commit::EIO_GetParent, entered when the lock is obtained and    *)
(* left when the backend call has returned and the lock is released.       *)
(***************************************************************************)
\* what git_commit_parent returns: the parent at the index, or, when the
\* frontend changed the parent list during the call, anything
ParentRead(b, h, i, raced) ==
    IF raced
    THEN {NULL} \cup {p \in Handles : b[p].alloc /\ b[p].id # NoOid}
    ELSE {GitCommitParent(b, h, i)}

\* repository_->lockRepository() by a worker, and unlockRepository()
LockRepository(thread) == thread
\* (mutant: the lock is not released)
UnlockSkipped(holder) == holder
UnlockRepository(holder) == FREE

EIO_GetParentEnter(t) ==
    /\ t \in DOMAIN tasks
    /\ tasks[t].pc = "queued"
    /\ lock = FREE
    /\ lock' = LockRepository(GpWorker(t))
    /\ tasks' = [tasks EXCEPT ![t].pc = "incall"]
    /\ lastOp' = [Op(ExecuteThread, "EIO_GetParent", tasks[t].commit, TRUE, NULL, 0, 0, TRUE, TRUE)
                     EXCEPT !.trace = <<"lock">>]
    /\ UNCHANGED <<backend, wrappers, cache, evRefs, budget, heap>>

EIO_GetParentLeave(t) ==
    /\ t \in DOMAIN tasks
    /\ tasks[t].pc = "incall"
    /\ \E p \in ParentRead(backend, wrappers[tasks[t].commit].commit,
                           tasks[t].index, tasks[t].raced) :
          tasks' = [tasks EXCEPT ![t].pc = "done", ![t].parent = p]
    /\ lock' = UnlockRepository(lock)
    /\ lastOp' = [Op(ExecuteThread, "EIO_GetParent", tasks[t].commit, TRUE, NULL, 0, 0, FALSE, FALSE)
                     EXCEPT !.trace = <<"unlock">>]
    /\ UNCHANGED <<backend, wrappers, cache, evRefs, budget, heap>>

(***************************************************************************)
(* Frontend: Commit::EIO_AfterGetParent.                                   *)
(***************************************************************************)
EIO_AfterGetParent(t) ==
    /\ t \in DOMAIN tasks
    /\ tasks[t].pc = "done"
    /\ evRefs' = evRefs - 1
    /\ LET unrefd == Unref(wrappers, tasks[t].commit)
           r == AsyncRequestObject(backend, unrefd, cache, tasks, tasks[t].parent, t)
       IN  IF tasks[t].parent = NULL
           THEN /\ tasks' = DeleteRequest(Deliver(tasks, t, ErrResult), t)
                /\ wrappers' = unrefd
                /\ UNCHANGED cache
           ELSE /\ tasks' = DeleteRequest(r.tasks, t)
                /\ wrappers' = r.wrappers
                /\ cache' = r.cache
    /\ heap' = DeleteRecord(heap)
    /\ lastOp' = Op(FinishThread, "EIO_AfterGetParent", tasks[t].commit, TRUE, NULL, 0, 0, FALSE, FALSE)
    /\ UNCHANGED <<backend, lock, budget>>

(***************************************************************************)
(* The deferred load of a wrapper: loadInitData on a worker, then          *)
(* processInitData and the waiting callbacks on the frontend.              *)
(***************************************************************************)
\* what loadInitData copies: the fields of the object, or, when the frontend
\* changed the object during the locked section, anything
DataRead(b, h, raced) ==
    IF raced
    THEN [id : {GitOidFmt(b[h].id)}, message : {"", "m"}, author : {"", "sig"},
          committer : {"", "sig"}, parentCount : 0 .. MaxAdds]
    ELSE {loadInitData(b, h)}

LoadEnter(w) ==
    /\ wrappers[w].loadPc = "queued"
    /\ lock = FREE
    /\ lock' = LockRepository(LoadWorker(w))
    /\ wrappers' = [wrappers EXCEPT ![w].loadPc = "incall"]
    /\ lastOp' = [Op(ExecuteThread, "loadInitData", w, TRUE, NULL, 0, 0, TRUE, TRUE)
                     EXCEPT !.trace = <<"lock">>]
    /\ UNCHANGED <<backend, cache, tasks, evRefs, budget, heap>>

LoadLeave(w) ==
    /\ wrappers[w].loadPc = "incall"
    /\ \E d \in DataRead(backend, wrappers[w].commit, wrappers[w].raced) :
          wrappers' = [wrappers EXCEPT ![w].loadPc = "read", ![w].data = d]
    /\ lock' = UnlockRepository(lock)
    /\ lastOp' = [Op(ExecuteThread, "loadInitData", w, TRUE, NULL, 0, 0, FALSE, FALSE)
                     EXCEPT !.trace = <<"unlock">>]
    /\ UNCHANGED <<backend, cache, tasks, evRefs, budget, heap>>

\* every callback waiting for wrapper w is invoked with it
DeliverAll(ts, w, waiting) ==
    [t \in DOMAIN ts |-> IF t \in waiting THEN Deliver(ts, t, OkResult(w))[t] ELSE ts[t]]

LoadComplete(w) ==
    /\ wrappers[w].loadPc = "read"
    /\ LET wr == wrappers[w]
           loaded == IF wr.state = "Loading"
                     THEN [processInitData(wr, wr.data) EXCEPT !.state = "Loaded"]
                     ELSE wr
       IN  wrappers' = [wrappers EXCEPT ![w] =
               [loaded EXCEPT !.loadPc = "done", !.waiters = {}, !.handed = TRUE]]
    /\ tasks' = DeliverAll(tasks, w, wrappers[w].waiters)
    /\ lastOp' = Op(FinishThread, "processInitData", w, TRUE, NULL, 0, 0, FALSE, FALSE)
    /\ UNCHANGED <<backend, lock, cache, evRefs, budget, heap>>

(***************************************************************************)
(* Frontend: Commit::AddParent.                                            *)
(***************************************************************************)
\* the argument: an id string, a Commit wrapper, something else, or nothing
StrArg(s) == [kind |-> "string", s |-> s, w |-> NULL]
RefArg(w) == [kind |-> "commit", s |-> "", w |-> w]
OtherArg == [kind |-> "other", s |-> "", w |-> NULL]
NoArg == [kind |-> "none", s |-> "", w |-> NULL]

\* an argument that is neither an id string nor a wrapper of the expected
\* kind, or an id string that git_oid_mkstr rejects
InvalidArgument(arg, kind) ==
    \/ arg.kind \notin {"string", kind}
    \/ arg.kind = "string" /\ GitOidMkstr(arg.s).res # "GIT_SUCCESS"

\* commits a caller may name as a parent: wrappers it holds of objects that
\* have an identity
ParentRefs == {w \in WrapperIds : Usable(w) /\ backend[wrappers[w].commit].id # NoOid}
AddParentArgs == {StrArg(s) : s \in IdStrings} \cup {RefArg(w) : w \in ParentRefs}
                     \cup {OtherArg, NoArg}

\* the backend commit the argument resolves to, or the reason it does not
ResolveCommit(b, arg) ==
    IF arg.kind = "string"
    THEN LET p == GitOidMkstr(arg.s)
             l == GitCommitLookup(b, p.oid)
         IN  IF p.res # "GIT_SUCCESS" THEN [ok |-> FALSE, commit |-> NULL, looked |-> FALSE]
             ELSE IF l.res # "GIT_SUCCESS" THEN [ok |-> FALSE, commit |-> NULL, looked |-> TRUE]
             ELSE [ok |-> TRUE, commit |-> l.commit, looked |-> TRUE]
    ELSE IF arg.kind = "commit"
    THEN [ok |-> TRUE, commit |-> wrappers[arg.w].commit, looked |-> FALSE]
    ELSE [ok |-> FALSE, commit |-> NULL, looked |-> FALSE]

\* (mutant: the count is not incremented)
NextParentCountSame(n) == n
\* (mutant: the count is incremented for the property and for the member)
NextParentCountTwice(n) == n + 2
\* ++commit->parentCount_
NextParentCount(n) == n + 1

\* workers inside a backend call on object h see the frontend change it
RaceTasks(ts, h) ==
    [t \in DOMAIN ts |->
        IF ts[t].pc = "incall" /\ wrappers[ts[t].commit].commit = h
        THEN [ts[t] EXCEPT !.raced = TRUE] ELSE ts[t]]
RaceLoads(ws, h) ==
    [w \in WrapperIds |->
        IF ws[w].loadPc = "incall" /\ ws[w].commit = h
        THEN [ws[w] EXCEPT !.raced = TRUE] ELSE ws[w]]

AddParent(w, arg, ok) ==
    /\ Usable(w)
    /\ CanCall
    /\ LET r == ResolveCommit(backend, arg)
           h == wrappers[w].commit
           n == NextParentCount(wrappers[w].parentCount_)
       IN  IF ~r.ok
           THEN /\ ok
                /\ lastOp' = [Op("frontend", "addParent", w, FALSE, NULL, 0, 0, r.looked, FALSE)
                                 EXCEPT !.invalid = InvalidArgument(arg, "commit")]
                /\ budget' = Called
                /\ UNCHANGED <<backend, wrappers, tasks>>
           ELSE /\ budget.adds < MaxAdds
                /\ budget' = [Called EXCEPT !.adds = @ + 1]
                /\ backend' = GitCommitAddParent(backend, h, r.commit, ok)
                /\ wrappers' = RaceLoads([wrappers EXCEPT ![w].parentCount_ = n,
                                                          ![w].parentCount = n], h)
                /\ tasks' = RaceTasks(tasks, h)
                /\ lastOp' = [Op("frontend", "addParent", w, TRUE, NULL, 1, 0, TRUE, FALSE)
                                 EXCEPT !.invalid = InvalidArgument(arg, "commit")]
    /\ UNCHANGED <<lock, cache, evRefs, heap>>

(***************************************************************************)
(* Frontend: Commit::GetTree and Commit::SetTree.                          *)
(***************************************************************************)
\* the tree is read without the lock; a commit without a tree gives Null(),
\* any other the wrapper treeFactory_->syncRequestObject returns
GetTree(w) ==
    /\ Usable(w)
    /\ CanCall
    /\ budget' = Called
    /\ GitCommitTree(backend, wrappers[w].commit) \in {NULL, WildTree} \cup Trees
    /\ lastOp' = Op("frontend", "getTree", w, TRUE, NULL, 0, 0, TRUE, FALSE)
    /\ UNCHANGED <<backend, lock, wrappers, cache, tasks, evRefs, heap>>

TreeArg(t) == [kind |-> "tree", s |-> "", w |-> t]
TreeIdStrings == {GitOidFmt(TreeOid), GitOidFmt(MissingOid), "zz"}
SetTreeArgs == {StrArg(s) : s \in TreeIdStrings} \cup {TreeArg(t) : t \in Trees}
                   \cup {OtherArg, NoArg}

\* the values the local variable tree can have at git_commit_set_tree: the
\* tree looked up, the tree of the Tree wrapper, or, when the argument is
\* neither a string nor a Tree, whatever the uninitialised variable holds
ResolveTree(arg) ==
    IF arg.kind = "string"
    THEN LET p == GitOidMkstr(arg.s)
             l == GitTreeLookup(p.oid)
         IN  IF p.res # "GIT_SUCCESS" THEN [ok |-> FALSE, trees |-> {}, looked |-> FALSE]
             ELSE IF l.res # "GIT_SUCCESS" THEN [ok |-> FALSE, trees |-> {}, looked |-> TRUE]
             ELSE [ok |-> TRUE, trees |-> {l.tree}, looked |-> TRUE]
    ELSE IF arg.kind = "tree"
    THEN [ok |-> TRUE, trees |-> {arg.w}, looked |-> FALSE]
    ELSE [ok |-> TRUE, trees |-> {NULL, WildTree} \cup Trees, looked |-> FALSE]

SetTree(w, arg) ==
    /\ Usable(w)
    /\ CanCall
    /\ budget' = Called
    /\ LET r == ResolveTree(arg)
           h == wrappers[w].commit
       IN  IF ~r.ok
           THEN /\ lastOp' = [Op("frontend", "setTree", w, FALSE, NULL, 0, 0, r.looked, FALSE)
                                 EXCEPT !.invalid = InvalidArgument(arg, "tree")]
                /\ UNCHANGED backend
           ELSE /\ \E t \in r.trees : backend' = GitCommitSetTree(backend, h, t)
                /\ lastOp' = [Op("frontend", "setTree", w, TRUE, NULL, 1, 0, TRUE, FALSE)
                                 EXCEPT !.invalid = InvalidArgument(arg, "tree")]
    /\ UNCHANGED <<lock, wrappers, cache, tasks, evRefs, heap>>

(***************************************************************************)
(* Frontend: the caller assigns the writable properties, and Commit::Save. *)
(***************************************************************************)
Messages == {"", "m"}
Signatures == {"bad", "sig"}

SetFields(w, m, a, c) ==
    /\ Usable(w)
    /\ CanCall
    /\ budget' = Called
    /\ wrappers' = [wrappers EXCEPT ![w].message = m, ![w].author = a, ![w].committer = c]
    /\ lastOp' = Op("frontend", "setFields", w, TRUE, NULL, 0, 0, FALSE, FALSE)
    /\ UNCHANGED <<backend, lock, cache, tasks, evRefs, heap>>

\* CHECK_PROPERTY: the property is there
PropertyMissing(v) == v \in {UNDEF, JSNULL}
\* (mutant: the length is not checked)
MessageEmptyUnchecked(m) == FALSE
\* message->Length() == 0
MessageEmpty(m) == m = ""
\* GET_SIGNATURE_PROPERTY: the property is there and is a well-formed person
SignatureInvalid(v) == PropertyMissing(v) \/ v = "bad"

\* the checks Save makes before it touches the backend
SaveInvalid(wr) ==
    \/ PropertyMissing(wr.message)
    \/ MessageEmpty(wr.message)
    \/ SignatureInvalid(wr.author)
    \/ SignatureInvalid(wr.committer)

\* (mutant: the id is set whatever the write returned)
SavedIdAlways(wr, b, ok) == GitOidFmt(b[wr.commit].id)
\* the id property after the write: set from the backend only when it succeeded
SavedId(wr, b, ok) == IF ok THEN GitOidFmt(b[wr.commit].id) ELSE wr.id

Save(w, ok) ==
    /\ Usable(w)
    /\ CanCall
    /\ budget' = Called
    /\ LET wr == wrappers[w]
           h == wr.commit
           set == GitCommitSetFields(backend, h, wr.message, wr.committer, wr.author)
           written == GitObjectWrite(set, h, ok)
       IN  IF SaveInvalid(wr)
           THEN /\ ok
                /\ lastOp' = Op("frontend", "save", w, FALSE, NULL, 0, 0, FALSE, FALSE)
                /\ UNCHANGED <<backend, wrappers>>
           ELSE /\ backend' = written
                /\ wrappers' = RaceLoads([wrappers EXCEPT ![w].id = SavedId(wr, written, ok)], h)
                /\ lastOp' = Op("frontend", "save", w, ok, NULL, 3, 1, TRUE, FALSE)
    /\ UNCHANGED <<lock, cache, tasks, evRefs, heap>>

(***************************************************************************)
(* The caller lets go of a wrapper; the collector destroys a wrapper that  *)
(* nobody holds: not the caller, not a pending request (refs), not the     *)
(* factory.                                                                *)
(***************************************************************************)
InCache(w) == \E o \in Oids : cache[o] = w

Release(w) ==
    /\ Usable(w)
    /\ CanCall
    /\ budget' = Called
    /\ wrappers[w].refs > 0 \/ ~InCache(w)
    /\ wrappers' = [wrappers EXCEPT ![w].handed = FALSE]
    /\ lastOp' = Op("frontend", "release", w, TRUE, NULL, 0, 0, FALSE, FALSE)
    /\ UNCHANGED <<backend, lock, cache, tasks, evRefs, heap>>

Collect(w) ==
    /\ wrappers[w].alive
    /\ ~wrappers[w].handed
    /\ wrappers[w].refs = 0
    /\ ~InCache(w)
    /\ wrappers' = [wrappers EXCEPT ![w].alive = FALSE]
    /\ lastOp' = Op("frontend", "collect", w, TRUE, NULL, 0, 0, FALSE, FALSE)
    /\ UNCHANGED <<backend, lock, cache, tasks, evRefs, budget, heap>>

Next ==
    \/ CreateNew
    \/ \E s \in IdStrings : Get(s)
    \/ \E w \in WrapperIds, i \in Indexes, mode \in Modes : GetParent(w, i, mode)
    \/ \E t \in DOMAIN tasks : EIO_GetParentEnter(t)
    \/ \E t \in DOMAIN tasks : EIO_GetParentLeave(t)
    \/ \E t \in DOMAIN tasks : EIO_AfterGetParent(t)
    \/ \E w \in WrapperIds : LoadEnter(w)
    \/ \E w \in WrapperIds : LoadLeave(w)
    \/ \E w \in WrapperIds : LoadComplete(w)
    \/ \E w \in WrapperIds, arg \in AddParentArgs, ok \in BOOLEAN : AddParent(w, arg, ok)
    \/ \E w \in WrapperIds : GetTree(w)
    \/ \E w \in WrapperIds, arg \in SetTreeArgs : SetTree(w, arg)
    \/ \E w \in WrapperIds, m \in Messages, a \in Signatures, c \in Signatures :
          SetFields(w, m, a, c)
    \/ \E w \in WrapperIds, ok \in BOOLEAN : Save(w, ok)
    \/ \E w \in WrapperIds : Release(w)
    \/ \E w \in WrapperIds : Collect(w)

Spec == Init /\ [][Next]_vars

(***************************************************************************)
(* Scheduling: a worker that can take its step eventually takes it, and    *)
(* the event loop eventually runs every completion that is pending.        *)
(***************************************************************************)
Fairness ==
    /\ \A t \in 1 .. MaxTasks :
          /\ WF_vars(EIO_GetParentEnter(t))
          /\ WF_vars(EIO_GetParentLeave(t))
          /\ WF_vars(EIO_AfterGetParent(t))
    /\ \A w \in WrapperIds :
          /\ WF_vars(LoadEnter(w))
          /\ WF_vars(LoadLeave(w))
          /\ WF_vars(LoadComplete(w))

FairSpec == Init /\ [][Next]_vars /\ Fairness

(***************************************************************************)
(* Properties.                                                             *)
(***************************************************************************)
Exists(w) == wrappers[w].state # "None"
Pending(t) == tasks[t].pc \in {"queued", "incall", "done", "handed"}

\* C1 (as claimed): every step that calls the backend holds the repository
\* lock for it, no other thread is inside a backend call at that moment, and
\* at most one worker is inside a backend call at any time.
C1_LockDiscipline ==
    /\ Cardinality(InBackend) <= 1
    /\ lastOp.called => (lastOp.locked /\ ~lastOp.overlap)

\* the identity of the backend object a wrapper stands for
IdentityOf(w) == backend[wrappers[w].commit].id

\* C2 (as claimed): no two distinct live wrappers stand for the same identity.
C2_IdentityUnique ==
    \A w1, w2 \in WrapperIds :
        (/\ Exists(w1) /\ Exists(w2)
         /\ wrappers[w1].alive /\ wrappers[w2].alive
         /\ IdentityOf(w1) # NoOid
         /\ IdentityOf(w1) = IdentityOf(w2)) => w1 = w2

\* C3 (as claimed): while a deferred getParent is submitted and its callback
\* has not been invoked, the owning wrapper has a reference count of at least
\* one and is not destroyed.
C3_RefHeldUntilDelivered ==
    \A t \in DOMAIN tasks :
        Pending(t) => (wrappers[tasks[t].commit].refs >= 1 /\ wrappers[tasks[t].commit].alive)

\* C4: every submitted deferred getParent eventually has its callback invoked,
\* the callback is never invoked before the submission nor more than once, and
\* a request whose callback was invoked stays completed.
C4_EveryTaskCompletesOnce ==
    /\ [](\A t \in DOMAIN tasks :
            /\ tasks[t].ncalls <= 1
            /\ (tasks[t].pc = "delivered") <=> (tasks[t].ncalls = 1))
    /\ \A t \in 1 .. MaxTasks :
          (t \in DOMAIN tasks) ~> (t \in DOMAIN tasks /\ tasks[t].pc = "delivered")

\* two requests on the same wrapper, in flight together, both completed after
\* the caller let go of the wrapper
C4_Witness ==
    /\ Len(tasks) >= 2
    /\ tasks[1].commit = tasks[2].commit
    /\ tasks[1].pc = "delivered" /\ tasks[2].pc = "delivered"
    /\ tasks[1].ncalls = 1 /\ tasks[2].ncalls = 1
    /\ ~wrappers[tasks[1].commit].handed

\* the wrappers a caller can read: the ones it holds, the one the last call
\* returned, the ones passed to a callback
Exposed(w) ==
    \/ wrappers[w].handed
    \/ lastOp.ret = w
    \/ \E t \in DOMAIN tasks : tasks[t].result.wrapper = w
Props(wr) == <<wr.id, wr.message, wr.author, wr.committer, wr.parentCount>>
NoneSet(wr) == (\A k \in 1 .. 4 : Props(wr)[k] = UNDEF) /\ wr.parentCount = NoCount
AllSet(wr) == (\A k \in 1 .. 4 : Props(wr)[k] # UNDEF) /\ wr.parentCount # NoCount

HandedLoaded ==
    \A w \in WrapperIds :
        /\ Exposed(w) => wrappers[w].state \in {"Loaded", "New"}
        /\ wrappers[w].state = "Loading" => NoneSet(wrappers[w])
        /\ wrappers[w].state \in {"Loaded", "New"} => AllSet(wrappers[w])

\* the step that publishes a load sets the five properties from one copy: the
\* record the worker filled, or the backend object read by the frontend itself
PublishedTogether ==
    \A w \in WrapperIds :
        (wrappers[w].state = "Loading" /\ wrappers'[w].state = "Loaded") =>
            LET b == backend[wrappers[w].commit]
                d == wrappers[w].data
            IN  \/ /\ lastOp'.op = "processInitData"
                   /\ Props(wrappers'[w]) =
                        <<d.id, d.message, d.author, d.committer, d.parentCount>>
                \/ /\ lastOp'.op # "processInitData"
                   /\ Props(wrappers'[w]) =
                        <<GitOidFmt(b.id), b.message, b.author, b.committer, Len(b.parents)>>

\* C5: a wrapper a caller can read is never in Loading state; a wrapper has
\* either none of its five properties or all of them; and the step that ends
\* a load sets all five from one copy made by that load.
C5_LoadBeforeUse == [][HandedLoaded' /\ PublishedTogether]_vars

\* a wrapper loaded by a worker was passed to a callback
C5_Witness ==
    \E t \in DOMAIN tasks :
        /\ tasks[t].pc = "delivered"
        /\ tasks[t].result.wrapper # NULL
        /\ wrappers[tasks[t].result.wrapper].loadPc = "done"
        /\ wrappers[tasks[t].result.wrapper].state = "Loaded"

\* a step that is a call of save
SaveStep == lastOp'.op = "save" /\ budget'.calls = budget.calls + 1
\* what the caller must have set for save to go ahead
Incomplete(wr) ==
    \/ wr.message \in {UNDEF, JSNULL, ""}
    \/ wr.author # "sig"
    \/ wr.committer # "sig"

\* C6: save on a wrapper whose message is missing or empty, or whose author
\* or committer is missing or malformed, fails without any backend call and
\* leaves the backend as it was; any other save makes exactly one write call.
C6_FailFastSave ==
    [][SaveStep =>
        IF Incomplete(wrappers[lastOp'.w])
        THEN /\ ~lastOp'.ok
             /\ ~lastOp'.called /\ lastOp'.sets = 0 /\ lastOp'.writes = 0
             /\ backend' = backend
        ELSE lastOp'.writes = 1]_vars

\* save was called with an empty message and failed without a backend call
C6_Witness ==
    /\ lastOp.op = "save"
    /\ ~lastOp.ok
    /\ wrappers[lastOp.w].message = ""
    /\ lastOp.writes = 0

\* C7: the id property of a loaded or new wrapper changes only in a save whose
\* write succeeded, and then it is the id the backend gave the object; after
\* a save that failed it is what it was.
C7_NoPartialIdentity ==
    [][\A w \in WrapperIds :
          /\ (SaveStep /\ lastOp'.w = w /\ ~lastOp'.ok) => wrappers'[w].id = wrappers[w].id
          /\ (wrappers[w].state \in {"Loaded", "New"} /\ wrappers'[w].id # wrappers[w].id) =>
                /\ SaveStep /\ lastOp'.w = w /\ lastOp'.ok
                /\ wrappers'[w].id = GitOidFmt(backend'[wrappers[w].commit].id)]_vars

\* the backend write of a never-persisted wrapper failed: it has no identity
C7_Witness ==
    /\ lastOp.op = "save"
    /\ ~lastOp.ok
    /\ lastOp.writes = 1
    /\ wrappers[lastOp.w].state = "New"
    /\ wrappers[lastOp.w].id = JSNULL

\* C8 (as claimed): after a successful save the wrapper is the one the cache
\* holds for the identity the backend returned.
C8_SavePublishes ==
    (lastOp.op = "save" /\ lastOp.ok) => cache[IdentityOf(lastOp.w)] = lastOp.w

\* a step that is a call of addParent
AddParentStep == lastOp'.op = "addParent" /\ budget'.calls = budget.calls + 1

\* C9 (as claimed): every call of addParent adds one to parentCount.
C9_EveryCallCounts ==
    [][AddParentStep =>
          wrappers'[lastOp'.w].parentCount = wrappers[lastOp'.w].parentCount + 1]_vars

\* C9 (amended): a call of addParent that returns normally adds exactly one to
\* parentCount and to parentCount_, whether or not the backend appended the
\* parent; a call that throws leaves both as they were.
C9_LocalCounter ==
    [][AddParentStep =>
          LET old == wrappers[lastOp'.w]
              new == wrappers'[lastOp'.w]
          IN  IF lastOp'.ok
              THEN new.parentCount = old.parentCount + 1 /\ new.parentCount_ = old.parentCount_ + 1
              ELSE new.parentCount = old.parentCount /\ new.parentCount_ = old.parentCount_]_vars

\* createNew, then two addParent calls the backend did not carry out: the
\* count is 2 before any save
C9_Witness ==
    \E w \in WrapperIds :
        /\ wrappers[w].state = "New"
        /\ wrappers[w].id = JSNULL
        /\ wrappers[w].parentCount = 2
        /\ Len(backend[wrappers[w].commit].parents) = 0

\* what belongs to the frontend: the wrappers apart from the bookkeeping of
\* their deferred load, the cache, the loop's reference count, the callbacks
FrontendPart(wr) == [wr EXCEPT !.loadPc = "none", !.data = NoData, !.raced = FALSE]
CallbackPart(ts) == [t \in DOMAIN ts |-> <<ts[t].ncalls, ts[t].result, ts[t].commit, ts[t].index>>]

\* C10: a step of a worker thread changes nothing but the lock, the position
\* and result slot of its own request, and the copy made by its own load: no
\* callback runs, no wrapper property or reference count and no cache entry
\* changes.
C10_ThreadConfinement ==
    [][lastOp'.thread # "frontend" =>
          /\ \A w \in WrapperIds : FrontendPart(wrappers'[w]) = FrontendPart(wrappers[w])
          /\ cache' = cache
          /\ evRefs' = evRefs
          /\ DOMAIN tasks' = DOMAIN tasks
          /\ CallbackPart(tasks') = CallbackPart(tasks)]_vars

\* a worker has stored the parent it resolved in its request
C10_Witness ==
    /\ lastOp.thread = "worker"
    /\ \E t \in DOMAIN tasks : tasks[t].pc = "done" /\ tasks[t].parent # NULL

\* a completion step: the callback of request t is invoked in this step
Completes(t) == t \in DOMAIN tasks /\ tasks[t].ncalls = 0 /\ tasks'[t].ncalls = 1

\* C11: no step of a worker thread raises an error; a deferred getParent
\* whose backend call returned no parent has its callback invoked, by the
\* completion handler itself, with an error and no wrapper; and every callback
\* is invoked with either an error and no wrapper or a wrapper and no error.
C11_ErrorPropagation ==
    [][/\ lastOp'.thread = "worker" => lastOp'.ok
       /\ \A t \in DOMAIN tasks :
             /\ (lastOp'.op = "EIO_AfterGetParent" /\ tasks[t].pc = "done"
                    /\ tasks'[t].pc # "done" /\ tasks[t].parent = NULL) =>
                   (Completes(t) /\ tasks'[t].result.err)
             /\ Completes(t) =>
                   /\ tasks'[t].result.err <=> tasks'[t].result.wrapper = NULL
                   /\ tasks'[t].result.err <=> tasks[t].parent = NULL]_vars

\* a deferred getParent whose worker got no parent was completed with an error
C11_Witness ==
    \E t \in DOMAIN tasks :
        /\ tasks[t].ncalls = 1
        /\ tasks[t].parent = NULL
        /\ tasks[t].result.err
        /\ tasks[t].result.wrapper = NULL

\* a step that is a call of setTree
SetTreeStep == lastOp'.op = "setTree" /\ budget'.calls = budget.calls + 1

\* C12 (as claimed): addParent and setTree with an argument that is neither
\* an id string nor a wrapper of the expected kind, or with a malformed id
\* string, fail, make no backend mutation and leave the backend object and
\* the wrapper as they were.
C12_InvalidArgument ==
    [][((AddParentStep \/ SetTreeStep) /\ lastOp'.invalid) =>
          /\ ~lastOp'.ok
          /\ lastOp'.sets = 0
          /\ backend' = backend
          /\ wrappers' = wrappers]_vars

\* a step that is a call of getParent
GetParentStep == lastOp'.op = "getParent" /\ budget'.calls = budget.calls + 1
\* the parent list of the backend object behind wrapper w
ParentsOf(b, w) == b[wrappers[w].commit].parents
\* index i names a parent of wrapper w
NamesParent(b, w, i) == i >= 0 /\ i < Len(ParentsOf(b, w))
\* wrapper p stands for the parent of wrapper w at index i
IsParentAt(b, w, i, p) ==
    /\ i >= 0 /\ i < wrappers[w].parentCount
    /\ NamesParent(b, w, i)
    /\ wrappers'[p].commit = ParentsOf(b, w)[i + 1]

\* C13 (as claimed): getParent with an index that names no parent never
\* yields a wrapper: inline it fails, deferred it fails or its callback gets
\* an error; and a wrapper that getParent returns or passes to its callback
\* is the wrapper of the backend's parent at that index, the index being
\* within 0 .. parentCount - 1.
C13_NotFoundParent ==
    [][/\ GetParentStep =>
             /\ ~NamesParent(backend, lastOp'.w, lastOp'.index) =>
                   /\ lastOp'.ret = NULL
                   /\ ~lastOp'.ok \/ Len(tasks') = Len(tasks) + 1
             /\ lastOp'.ret # NULL =>
                   IsParentAt(backend, lastOp'.w, lastOp'.index, lastOp'.ret)
       /\ \A t \in DOMAIN tasks :
             Completes(t) =>
                /\ ~NamesParent(backend, tasks[t].commit, tasks[t].index) =>
                      tasks'[t].result.err
                /\ tasks'[t].result.wrapper # NULL =>
                      IsParentAt(backend, tasks[t].commit, tasks[t].index,
                                 tasks'[t].result.wrapper)]_vars

\* C14 (as claimed): a save that fails, at validation or at the backend
\* write, leaves the wrapper's properties and the backend object (message,
\* author, committer, identity) as they were before the call.
C14_FailedSaveUnchanged ==
    [][(SaveStep /\ ~lastOp'.ok) =>
          LET w == lastOp'.w
              h == wrappers[w].commit
          IN  /\ FrontendPart(wrappers'[w]) = FrontendPart(wrappers[w])
              /\ backend'[h] = backend[h]]_vars

\* both counters of a wrapper: the parentCount property and parentCount_
Counters(wr) == <<wr.parentCount, wr.parentCount_>>

\* C16: the counters of a wrapper are set when it is made (0 for a new
\* commit) or when its load is published (from the copy the load made); from
\* then on its load state does not change and the counters change only in an
\* addParent call on that wrapper that returns normally, by exactly one: no
\* getParent, getTree, setTree, save or completion step changes them, and
\* they never decrease.
C16_ParentCountFrame ==
    [][\A w \in WrapperIds :
          /\ (wrappers[w].state = "None" /\ wrappers'[w].state = "New") =>
                Counters(wrappers'[w]) = <<0, 0>>
          /\ wrappers[w].state \in {"Loaded", "New"} =>
                /\ wrappers'[w].state = wrappers[w].state
                /\ wrappers'[w].parentCount >= wrappers[w].parentCount
                /\ Counters(wrappers'[w]) # Counters(wrappers[w]) =>
                      /\ AddParentStep /\ lastOp'.w = w /\ lastOp'.ok
                      /\ wrappers'[w].parentCount = wrappers[w].parentCount + 1
                      /\ wrappers'[w].parentCount_ = wrappers[w].parentCount_ + 1]_vars

\* a save succeeded on a wrapper whose count (1, from an addParent the
\* backend did not carry out) differs from the backend's: the count is kept
C16_Witness ==
    /\ lastOp.op = "save"
    /\ lastOp.ok
    /\ wrappers[lastOp.w].parentCount = 1
    /\ Len(backend[wrappers[lastOp.w].commit].parents) = 0

\* C17 (as claimed): the get_parent_request records that exist are those of
\* the deferred getParent requests not yet destroyed, one each, and a record
\* is destroyed only after its callback was invoked.
C17_RecordLifetime ==
    /\ heap = Cardinality({t \in DOMAIN tasks : ~tasks[t].freed})
    /\ \A t \in DOMAIN tasks : tasks[t].freed => tasks[t].ncalls = 1

\* the number of times the lock is held after the first k calls of a trace
Held(trace, k) ==
    Cardinality({j \in 1 .. k : trace[j] = "lock"})
        - Cardinality({j \in 1 .. k : trace[j] = "unlock"})
\* no lock call is made while the lock is held, and the last unlock frees it
Paired(trace) ==
    /\ \A k \in 1 .. Len(trace) : Held(trace, k) \in {0, 1}
    /\ Held(trace, Len(trace)) = 0

\* the lock is held exactly while a worker is inside its backend call, by
\* that worker
HeldByCaller ==
    /\ lock = FREE => InBackend = {}
    /\ lock # FREE => InBackend = {lock}

\* the lock calls of one step: a frontend handler pairs every lock with an
\* unlock and never locks twice; a worker locks a free lock when it enters
\* its backend call and frees it when it leaves
LockCalls ==
    /\ lastOp'.thread = "frontend" =>
          /\ Paired(lastOp'.trace)
          /\ lastOp'.trace # <<>> => (lock = FREE /\ lock' = FREE)
    /\ lastOp'.thread = "worker" =>
          \/ lastOp'.trace = <<"lock">> /\ lock = FREE /\ lock' # FREE
          \/ lastOp'.trace = <<"unlock">> /\ lock # FREE /\ lock' = FREE

\* C18: no thread locks the repository while it holds the lock, every lock
\* is followed by the unlock of the same operation, the lock is free whenever
\* no worker is inside a backend call, and every worker step waiting for the
\* lock eventually obtains it.
C18_NoDeadlock ==
    /\ []HeldByCaller
    /\ [][LockCalls]_vars
    /\ \A t \in 1 .. MaxTasks :
          (t \in DOMAIN tasks /\ tasks[t].pc = "queued")
              ~> (t \in DOMAIN tasks /\ tasks[t].pc # "queued")
    /\ \A w \in WrapperIds :
          (wrappers[w].loadPc = "queued") ~> (wrappers[w].loadPc # "queued")

\* inline getParent released the lock before it requested the parent's
\* wrapper, whose load locked again
C18_Witness ==
    /\ lastOp.op = "getParent"
    /\ lastOp.ok
    /\ lastOp.trace = LockedSection \o LockedSection

\* requests that were submitted and whose completion handler has not run
Outstanding == {t \in DOMAIN tasks : tasks[t].pc \in {"queued", "incall", "done"}}

\* C19: the event loop's reference count is the number of outstanding
\* deferred getParent requests and the reference count of each wrapper the
\* number of those made on it (so each is raised once at submission, lowered
\* once at completion on either path, never negative, and 0 when nothing is
\* outstanding); and a getParent call that is rejected changes neither.
C19_RefsBalanced ==
    /\ [](/\ evRefs = Cardinality(Outstanding)
          /\ \A w \in WrapperIds :
                wrappers[w].refs = Cardinality({t \in Outstanding : tasks[t].commit = w}))
    /\ [][(GetParentStep /\ ~lastOp'.ok) =>
             /\ evRefs' = evRefs
             /\ \A w \in WrapperIds : wrappers'[w].refs = wrappers[w].refs]_vars

\* two requests on one wrapper, one completed with an error and one with a
\* wrapper: both counts are back to 0
C19_Witness ==
    /\ Len(tasks) >= 2
    /\ Outstanding = {}
    /\ tasks[1].commit = tasks[2].commit
    /\ tasks[1].result.err # tasks[2].result.err
    /\ evRefs = 0
    /\ wrappers[tasks[1].commit].refs = 0

\* the worker of request t leaves its backend call in this step
WorkerReturns(t) == t \in DOMAIN tasks /\ tasks[t].pc = "incall" /\ tasks'[t].pc = "done"
\* what the inline branch gets for request t in the current state
InlineParent(t) ==
    GitCommitParent(backend, wrappers[tasks[t].commit].commit, tasks[t].index)

\* C20 (as claimed): a getParent call that the bounds check rejects is
\* rejected in either mode; the parent the worker of a deferred getParent
\* stores is the one the inline branch gets in the same state; and the
\* callback gets an error exactly when there is no parent, and otherwise the
\* wrapper an inline request for that parent returns.
C20_ModeEquivalence ==
    [][/\ (GetParentStep /\ IndexOutOfBounds(lastOp'.index, wrappers[lastOp'.w].parentCount_)) =>
             (~lastOp'.ok /\ tasks' = tasks)
       /\ \A t \in DOMAIN tasks :
             /\ WorkerReturns(t) => tasks'[t].parent = InlineParent(t)
             /\ Completes(t) =>
                   IF tasks[t].parent = NULL
                   THEN tasks'[t].result.err
                   ELSE tasks'[t].result.wrapper =
                           SyncRequestObject(backend, wrappers, cache, tasks[t].parent).w]_vars

====
